---------------------------- MODULE Spec2Model ----------------------------
(***************************************************************************)
(* A model of gui_main.py: the cell normaliser (format_excel_date and the  *)
(* two per-cell passes of process_data), the key/detail partitioner, the   *)
(* grouping loop, the worksheet writer and the two file writes.            *)
(*                                                                         *)
(* Text is a sequence of one-character strings.  The module is ASCII, so a *)
(* CJK character is written as its pinyin syllable: "ri","qi" is the text  *)
(* of the column name 日期.  "sup2" is the character SUPERSCRIPT TWO, for  *)
(* which str.isdigit() is True while int() and float() raise ValueError.   *)
(* The float nan pandas stores for an empty cell is the value NaN below;   *)
(* it is not text.                                                         *)
(***************************************************************************)
EXTENDS Integers, Sequences, FiniteSets, TLC

-----------------------------------------------------------------------------
(* Bounds of the model *)

\* longest enumerated numeric input of the normaliser and of the coercion
MaxLen == 3
\* largest mantissa digit count / exponent of the enumerated "e+" inputs
MaxExp == 4

-----------------------------------------------------------------------------
(* Python str primitives *)

NaN == <<"NaN">>

DecimalChars == {"0", "1", "2", "3", "4", "5", "6", "7", "8", "9"}

\* str.isdigit(): every character is a digit and there is at least one
isdigit(s) == Len(s) > 0 /\ \A i \in 1..Len(s) : s[i] \in DecimalChars \cup {"sup2"}

\* the text int() and float() accept among the isdigit() ones: decimal digits
IsDecimalText(s) == \A i \in 1..Len(s) : s[i] \in DecimalChars

LowerChar(c) == CASE c = "E" -> "e" [] c = "N" -> "n" [] c = "A" -> "a"
                  [] c = "D" -> "d" [] c = "T" -> "t" [] OTHER -> c

lower(s) == [i \in 1..Len(s) |-> LowerChar(s[i])]

RECURSIVE lstrip(_)
lstrip(s) == IF Len(s) > 0 /\ s[1] = " " THEN lstrip(Tail(s)) ELSE s

RECURSIVE rstrip(_)
rstrip(s) == IF Len(s) > 0 /\ s[Len(s)] = " " THEN rstrip(SubSeq(s, 1, Len(s) - 1)) ELSE s

strip(s) == rstrip(lstrip(s))

endswith(s, suf) ==
    Len(s) >= Len(suf) /\ SubSeq(s, Len(s) - Len(suf) + 1, Len(s)) = suf

\* sub in s
contains(s, sub) ==
    \E i \in 1..(Len(s) - Len(sub) + 1) : SubSeq(s, i, i + Len(sub) - 1) = sub

\* index of the first c in s, 0 when there is none
find(s, c) ==
    IF \E i \in 1..Len(s) : s[i] = c
    THEN CHOOSE i \in 1..Len(s) : s[i] = c /\ \A j \in 1..(i - 1) : s[j] # c
    ELSE 0

\* s.replace('.', '', 1)
replace_dot_once(s) ==
    LET i == find(s, ".")
    IN  IF i = 0 THEN s ELSE SubSeq(s, 1, i - 1) \o SubSeq(s, i + 1, Len(s))

\* str.join
RECURSIVE join(_, _)
join(sep, parts) ==
    IF Len(parts) = 0 THEN <<>>
    ELSE IF Len(parts) = 1 THEN parts[1]
    ELSE parts[1] \o sep \o join(sep, Tail(parts))

-----------------------------------------------------------------------------
(* Decimal numerals *)

DigitValue(c) == CASE c = "0" -> 0 [] c = "1" -> 1 [] c = "2" -> 2 [] c = "3" -> 3
                   [] c = "4" -> 4 [] c = "5" -> 5 [] c = "6" -> 6 [] c = "7" -> 7
                   [] c = "8" -> 8 [] c = "9" -> 9

DigitChar(d) == <<"0", "1", "2", "3", "4", "5", "6", "7", "8", "9">>[d + 1]

RECURSIVE StripLeadingZeros(_)
StripLeadingZeros(s) ==
    IF Len(s) > 1 /\ s[1] = "0" THEN StripLeadingZeros(Tail(s)) ELSE s

RECURSIVE StripTrailingZeros(_)
StripTrailingZeros(s) ==
    IF Len(s) > 0 /\ s[Len(s)] = "0"
    THEN StripTrailingZeros(SubSeq(s, 1, Len(s) - 1)) ELSE s

\* the number a text of decimal digits writes ("" is 0)
RECURSIVE ToNat(_)
ToNat(s) ==
    IF Len(s) = 0 THEN 0
    ELSE 10 * ToNat(SubSeq(s, 1, Len(s) - 1)) + DigitValue(s[Len(s)])

\* str(n) of a natural number
RECURSIVE NatText(_)
NatText(n) ==
    IF n < 10 THEN <<DigitChar(n)>> ELSE NatText(n \div 10) \o <<DigitChar(n % 10)>>

\* str(n).zfill(w)
RECURSIVE ZFill(_, _)
ZFill(s, w) == IF Len(s) >= w THEN s ELSE ZFill(<<"0">> \o s, w)

\* the digits before and after the decimal point of a text of digits with at
\* most one point
IntPart(s)  == LET i == find(s, ".") IN IF i = 0 THEN s ELSE SubSeq(s, 1, i - 1)
FracPart(s) == LET i == find(s, ".") IN IF i = 0 THEN <<>> ELSE SubSeq(s, i + 1, Len(s))

-----------------------------------------------------------------------------
(* datetime(1899, 12, 30) + timedelta(days=n), strftime('%Y-%m-%d') *)

\* the last day count datetime can hold: 9999-12-31 is day 2958465 from
\* 1899-12-30; a later one raises OverflowError
MAX_DAYS == 2958465

IsLeap(y) == (y % 4 = 0 /\ y % 100 # 0) \/ y % 400 = 0

DaysInMonth(y, m) ==
    CASE m \in {1, 3, 5, 7, 8, 10, 12} -> 31
      [] m \in {4, 6, 9, 11} -> 30
      [] OTHER -> IF IsLeap(y) THEN 29 ELSE 28

\* DateOfDays counting from 1900-01-01 instead of 1899-12-30
DateOfDays_1900(n) ==
    LET z   == n + 693901
        era == z \div 146097
        doe == z - era * 146097
        yoe == (doe - doe \div 1460 + doe \div 36524 - doe \div 146096) \div 365
        doy == doe - (365 * yoe + yoe \div 4 - yoe \div 100)
        mp  == (5 * doy + 2) \div 153
        d   == doy - (153 * mp + 2) \div 5 + 1
        m   == IF mp < 10 THEN mp + 3 ELSE mp - 9
        y   == yoe + era * 400 + (IF m <= 2 THEN 1 ELSE 0)
    IN  [y |-> y, m |-> m, d |-> d]

\* the proleptic Gregorian date n days after 1899-12-30 (n >= 0)
DateOfDays(n) ==
    LET z   == n + 693899
        era == z \div 146097
        doe == z - era * 146097
        yoe == (doe - doe \div 1460 + doe \div 36524 - doe \div 146096) \div 365
        doy == doe - (365 * yoe + yoe \div 4 - yoe \div 100)
        mp  == (5 * doy + 2) \div 153
        d   == doy - (153 * mp + 2) \div 5 + 1
        m   == IF mp < 10 THEN mp + 3 ELSE mp - 9
        y   == yoe + era * 400 + (IF m <= 2 THEN 1 ELSE 0)
    IN  [y |-> y, m |-> m, d |-> d]

\* dt.strftime('%Y-%m-%d')
strftime(dt) ==
    ZFill(NatText(dt.y), 4) \o <<"-">> \o ZFill(NatText(dt.m), 2) \o <<"-">>
        \o ZFill(NatText(dt.d), 2)

-----------------------------------------------------------------------------
(* float(val_str) of a text whose replace('.', '', 1) is isdigit() *)

\* float() raises ValueError on a digit character that is not a decimal digit
FloatRaises(s) == ~IsDecimalText(replace_dot_once(s))

IntDigits(s) == StripLeadingZeros(IntPart(s))

\* float(s) > 10000
THRESHOLD == 10000

GreaterThanThreshold(s) ==
    LET ip == IntDigits(s)
    IN  \/ Len(ip) > 5
        \/ /\ Len(ip) = 5
           /\ \/ ToNat(ip) > THRESHOLD
              \/ ToNat(ip) = THRESHOLD /\ StripTrailingZeros(FracPart(s)) # <<>>

\* the whole days of float(s); timedelta and datetime overflow past MAX_DAYS
DaysOverflow(s) == Len(IntDigits(s)) > 7 \/ ToNat(IntDigits(s)) > MAX_DAYS

-----------------------------------------------------------------------------
(* pd.to_datetime(val_str, errors='coerce') *)

NaT == [ok |-> FALSE, y |-> 0, m |-> 0, d |-> 0]

\* The parser is pandas', not this repository's.  Modelled: the two date
\* shapes YYYY-MM-DD and YYYY/MM/DD of a valid day inside Timestamp's range
\* parse to that day; every other text of the input sets used here (digits
\* with a decimal point, exponent notation, free text) is coerced to NaT.
pd_to_datetime(s) ==
    IF /\ Len(s) = 10
       /\ s[5] \in {"-", "/"} /\ s[8] = s[5]
       /\ IsDecimalText(SubSeq(s, 1, 4) \o SubSeq(s, 6, 7) \o SubSeq(s, 9, 10))
    THEN LET y == ToNat(SubSeq(s, 1, 4))
             m == ToNat(SubSeq(s, 6, 7))
             d == ToNat(SubSeq(s, 9, 10))
         IN  IF y \in 1678..2261 /\ m \in 1..12 /\ d \in 1..DaysInMonth(y, m)
             THEN [ok |-> TRUE, y |-> y, m |-> m, d |-> d]
             ELSE NaT
    ELSE NaT

-----------------------------------------------------------------------------
(* format_excel_date(value), for the values read_excel(dtype=str) yields:  *)
(* text, or the float nan of an empty cell                                 *)

format_excel_date(value) ==
    IF value = NaN \/ value = <<>> \/ lower(value) = <<"n", "a", "n">>
    THEN <<>>
    ELSE
    LET val_str == strip(value)
        numeric == isdigit(replace_dot_once(val_str))
        dt      == pd_to_datetime(val_str)
    IN  IF /\ numeric /\ ~FloatRaises(val_str)
           /\ GreaterThanThreshold(val_str) /\ ~DaysOverflow(val_str)
        THEN strftime(DateOfDays(ToNat(IntDigits(val_str))))
        ELSE IF ~isdigit(val_str) /\ dt.ok
        THEN strftime(dt)
        ELSE val_str

-----------------------------------------------------------------------------
(* The per-cell passes of process_data *)

date_keywords ==
    { <<"ri", "qi">>, <<"shi", "jian">>, <<"D", "a", "t", "e">>, <<"T", "i", "m", "e">> }

\* any(keyword in str(col) for keyword in date_keywords)
IsDateColumn(col) == \E keyword \in date_keywords : contains(col, keyword)

\* Series.astype(str): the float nan becomes the text 'nan'
astype_str(v) == IF v = NaN THEN <<"n", "a", "n">> ELSE v

\* lambda x: "" if x == "nan" else (x[:-2] if x.endswith('.0') else x)
trim_dot_zero(x) ==
    IF x = <<"n", "a", "n">> THEN <<>>
    ELSE IF endswith(x, <<".", "0">>) THEN SubSeq(x, 1, Len(x) - 2)
    ELSE x

\* a float whose integer part has more digits than this is inf, and int(inf)
\* raises OverflowError
MAX_FLOAT_DIGITS == 309

\* str(int(float(val))) for val = <mantissa>e+<exponent>, or "raise"
IntOfFloatText(val) ==
    LET s    == strip(val)
        neg  == Len(s) > 0 /\ s[1] = "-"
        u    == IF Len(s) > 0 /\ s[1] \in {"-", "+"} THEN Tail(s) ELSE s
        i    == find(lower(u), "e")
        mant == SubSeq(u, 1, i - 1)
        ex   == SubSeq(u, i + 2, Len(u))
    IN  IF \/ i = 0 \/ i + 1 > Len(u) \/ u[i + 1] # "+"
           \/ ~isdigit(replace_dot_once(mant)) \/ FloatRaises(mant)
           \/ Len(ex) = 0 \/ ~IsDecimalText(ex)
        THEN <<"raise">>
        ELSE
        LET ip    == IntPart(mant)
            fp    == FracPart(mant)
            zero  == \A j \in 1..Len(ip \o fp) : (ip \o fp)[j] = "0"
            big   == Len(StripLeadingZeros(ex)) > 3
            k     == IF big THEN 1000 ELSE ToNat(ex)
            moved == IF k <= Len(fp) THEN SubSeq(fp, 1, k)
                     ELSE fp \o [j \in 1..(k - Len(fp)) |-> "0"]
            digs  == StripLeadingZeros(ip \o moved)
        IN  IF zero THEN <<"0">>
            ELSE IF Len(digs) > MAX_FLOAT_DIGITS THEN <<"raise">>
            ELSE IF neg /\ digs # <<"0">> THEN <<"-">> \o digs
            ELSE digs

fix_sci(val) ==
    IF contains(lower(val), <<"e", "+">>)
    THEN IF IntOfFloatText(val) = <<"raise">> THEN val ELSE IntOfFloatText(val)
    ELSE val

\* the canonical text of one cell of column col
normalize(v, col) ==
    fix_sci(trim_dot_zero(astype_str(
        IF IsDateColumn(col) THEN format_excel_date(v) ELSE v)))

-----------------------------------------------------------------------------
(* Module constants of gui_main.py *)

col_RiQi       == <<"ri", "qi">>                                  \* 日期
col_ChuKuRiQi  == <<"qing", "mei", "chu", "ku", "ri", "qi">>      \* 清美出库日期
col_YunDanHao  == <<"yun", "dan", "hao", "ma">>                   \* 运单号码
col_DingDanHao == <<"qing", "mei", "xi", "tong", "ding", "dan", "hao">> \* 清美系统订单号
col_JiJianDiQu == <<"ji", "jian", "di", "qu">>                    \* 寄件地区
col_DaoJianDiQu == <<"dao", "jian", "di", "qu">>                  \* 到件地区
col_DuiFang    == <<"dui", "fang", "gong", "si", "ming", "cheng">> \* 对方公司名称
col_XiangShu   == <<"xiang", "shu">>                              \* 箱数
col_JiFeiZhongLiang == <<"ji", "fei", "zhong", "liang">>          \* 计费重量
col_ChanPinLeiXing  == <<"chan", "pin", "lei", "xing">>           \* 产品类型
col_FeiYongYuan == <<"fei", "yong", "(", "yuan", ")">>            \* 费用(元)
col_FeiYong    == <<"fei", "yong">>                               \* 费用
col_DanPiaoZheKou == <<"dan", "piao", "zhe", "kou">>              \* 单票折扣
col_YingFuJinE == <<"ying", "fu", "jin", "e">>                    \* 应付金额
col_BeiZhu     == <<"bei", "zhu">>                                \* 备注 (a free column)
col_update     == <<"u", "p", "d", "a", "t", "e">>                \* update (a free column)

STANDARD_KEY_COLUMNS ==
    << col_RiQi, col_ChuKuRiQi, col_YunDanHao, col_DingDanHao, col_JiJianDiQu,
       col_DaoJianDiQu, col_DuiFang, col_XiangShu, col_JiFeiZhongLiang,
       col_ChanPinLeiXing >>

\* COLUMN_MAPPING.get(col, col)
COLUMN_MAPPING(col) == IF col = col_FeiYongYuan THEN col_FeiYong ELSE col

\* the output names process_data always stores as float
MONETARY_COLUMNS == {col_FeiYong, col_DanPiaoZheKou, col_YingFuJinE}

Range(f) == {f[i] : i \in DOMAIN f}

-----------------------------------------------------------------------------
(* The typed value of a detail record: a str, an int or a float.  a holds  *)
(* the text of a str, the digits of an int, the integer digits of a float; *)
(* b holds the fraction digits of a float.                                 *)

StrValue(s) == [t |-> "str", a |-> s, b |-> <<>>]

\* int(val)
IntValue(val) == [t |-> "int", a |-> StripLeadingZeros(val), b |-> <<>>]

\* float(val)
FloatValue(val) ==
    [t |-> "float",
     a |-> IF IntPart(val) = <<>> THEN <<"0">> ELSE StripLeadingZeros(IntPart(val)),
     b |-> StripTrailingZeros(FracPart(val))]

\* coerce without the forced float of the monetary columns
coerce_no_monetary(val, output_col_name) ==
    IF isdigit(replace_dot_once(val))
    THEN IF FloatRaises(val) THEN StrValue(val)
         ELSE IF find(val, ".") # 0 THEN FloatValue(val)
         ELSE IntValue(val)
    ELSE StrValue(val)

\* final_val of lines 390-408: val is a str (every cell is after astype(str))
coerce(val, output_col_name) ==
    IF isdigit(replace_dot_once(val))
    THEN IF FloatRaises(val) THEN StrValue(val)     \* except: pass
         ELSE IF find(val, ".") # 0 THEN FloatValue(val)
         ELSE IF output_col_name \in MONETARY_COLUMNS THEN FloatValue(val)
         ELSE IntValue(val)
    ELSE StrValue(val)

-----------------------------------------------------------------------------
(* The key/detail partitioner of process_data *)

\* [columns[i] for i in order if checked[i] = want]
RECURSIVE PickColumns(_, _, _)
PickColumns(columns, checked, want) ==
    IF Len(columns) = 0 THEN <<>>
    ELSE (IF checked[1] = want THEN <<columns[1]>> ELSE <<>>)
            \o PickColumns(Tail(columns), Tail(checked), want)

RECURSIVE Filter(_, _)
Filter(seq, keep) ==
    IF Len(seq) = 0 THEN <<>>
    ELSE (IF seq[1] \in keep THEN <<seq[1]>> ELSE <<>>) \o Filter(Tail(seq), keep)

\* for std_col in STANDARD_KEY_COLUMNS: if std_col in selected_columns: append
StandardKeys(selected_columns) == Filter(STANDARD_KEY_COLUMNS, Range(selected_columns))

\* RemainingKeys without the "not in key_columns" filter
RemainingKeys_unfiltered(selected_columns, key_columns) == selected_columns

\* [col for col in selected_columns if col not in key_columns]
RemainingKeys(selected_columns, key_columns) ==
    Filter(selected_columns, Range(selected_columns) \ Range(key_columns))

KeyColumns(columns, checked) ==
    LET selected_columns == PickColumns(columns, checked, TRUE)
        std              == StandardKeys(selected_columns)
    IN  std \o RemainingKeys(selected_columns, std)

DetailColumns(columns, checked) == PickColumns(columns, checked, FALSE)

-----------------------------------------------------------------------------
(* The grouping loop of process_data *)

\* row[col]: the cell of the first column named col
Cell(columns, row, col) == row[find(columns, col)]

\* tuple(row[col] for col in key_columns)
key_tuple(columns, row, key_columns) ==
    [i \in 1..Len(key_columns) |-> Cell(columns, row, key_columns[i])]

\* key_str joined with no separator
key_str_unseparated(columns, row, key_columns) ==
    join(<<>>, key_tuple(columns, row, key_columns))

\* "_".join(str(row[col]) for col in key_columns)
key_str(columns, row, key_columns) ==
    join(<<"_">>, key_tuple(columns, row, key_columns))

\* detail_item: a dict, so a later detail column of the same output name
\* overwrites an earlier one
detail_item(columns, row, detail_columns) ==
    LET names == {COLUMN_MAPPING(detail_columns[i]) : i \in 1..Len(detail_columns)}
        last(name) == CHOOSE i \in 1..Len(detail_columns) :
                        /\ COLUMN_MAPPING(detail_columns[i]) = name
                        /\ \A j \in (i + 1)..Len(detail_columns) :
                              COLUMN_MAPPING(detail_columns[j]) # name
    IN  [name \in names |-> coerce(Cell(columns, row, detail_columns[last(name)]), name)]

\* A dict of lists in insertion order is a sequence of [key, items]; rows is
\* history: the indexes of the rows whose record went into items.
IndexOfKey(index, key) ==
    IF \E k \in 1..Len(index) : index[k].key = key
    THEN CHOOSE k \in 1..Len(index) : index[k].key = key
    ELSE 0

\* AppendTo that assigns the list instead of appending to it
AppendTo_overwrite(index, key, item, r) ==
    LET k == IndexOfKey(index, key)
    IN  IF k = 0
        THEN Append(index, [key |-> key, items |-> <<item>>, rows |-> <<r>>])
        ELSE [index EXCEPT ![k].items = <<item>>, ![k].rows = Append(@, r)]

\* if key not in d: d[key] = []; ...; d[key].append(item)
AppendTo(index, key, item, r) ==
    LET k == IndexOfKey(index, key)
    IN  IF k = 0
        THEN Append(index, [key |-> key, items |-> <<item>>, rows |-> <<r>>])
        ELSE [index EXCEPT ![k].items = Append(@, item), ![k].rows = Append(@, r)]

\* the two indexes after the rows r..Len(rows) are folded in
RECURSIVE GroupRows(_, _, _, _, _, _, _)
GroupRows(columns, rows, key_columns, detail_columns, r, groups, json_data_dict) ==
    IF r > Len(rows) THEN [groups |-> groups, json_data_dict |-> json_data_dict]
    ELSE LET item == detail_item(columns, rows[r], detail_columns)
         IN  GroupRows(columns, rows, key_columns, detail_columns, r + 1,
                 AppendTo(groups, key_tuple(columns, rows[r], key_columns), item, r),
                 AppendTo(json_data_dict, key_str(columns, rows[r], key_columns), item, r))

-----------------------------------------------------------------------------
(* The worksheet writer of process_data.  A sheet is the set of cells      *)
(* written, the merge regions and the cells given a centred alignment.     *)

EmptySheet == [cells |-> {}, merged |-> {}, aligned |-> {}]

\* the value openpyxl stores for the int group_index
NumberCell(n) == [t |-> "int", a |-> NatText(n), b |-> <<>>]

\* output_detail_headers
OutputDetailHeaders(detail_columns) ==
    [i \in 1..Len(detail_columns) |-> COLUMN_MAPPING(detail_columns[i])]

\* ws.append(headers): row 1
HeaderCells(key_columns, detail_columns) ==
    LET headers == <<<<"xu", "hao">>>> \o key_columns \o OutputDetailHeaders(detail_columns)
    IN  {[row |-> 1, column |-> j, value |-> StrValue(headers[j])] : j \in 1..Len(headers)}

\* the cells of one output row (lines 431-440)
RowCells(row_num, group_index, key, item, output_detail_headers) ==
    {[row |-> row_num, column |-> 1, value |-> NumberCell(group_index)]}
    \cup {[row |-> row_num, column |-> i + 1, value |-> StrValue(key[i])] :
            i \in 1..Len(key)}
    \cup {[row |-> row_num, column |-> Len(key) + i + 1,
           value |-> item[output_detail_headers[i]]] :
            i \in 1..Len(output_detail_headers)}

\* end_row = row_num - 1, after the rows of the group are written
EndRow(row_num) == row_num - 1

\* ShouldMerge with >= for >
ShouldMerge_inclusive(start_row, end_row) == end_row >= start_row

\* if end_row > start_row
ShouldMerge(start_row, end_row) == end_row > start_row

\* ws.merge_cells(start_row, start_column=c, end_row, end_column=c), c = 1 and
\* c = i + 2 for i in range(len(key_columns))
MergeRegions(start_row, end_row, nkeys) ==
    IF ShouldMerge(start_row, end_row)
    THEN {[start_row |-> start_row, start_column |-> c,
           end_row |-> end_row, end_column |-> c] : c \in 1..(nkeys + 1)}
    ELSE {}

\* NextGroupIndex without the increment
NextGroupIndex_stuck(group_index) == group_index

\* group_index += 1
NextGroupIndex(group_index) == group_index + 1

\* the body of "for key_tuple, items in groups.items()" from group k on
RECURSIVE WriteGroups(_, _, _, _, _, _)
WriteGroups(groups, k, row_num, group_index, output_detail_headers, ws) ==
    IF k > Len(groups) THEN ws
    ELSE
    LET g         == groups[k]
        n         == Len(g.items)
        nkeys     == Len(g.key)
        start_row == row_num
        end_row   == EndRow(row_num + n)
        rows      == UNION {RowCells(start_row + i - 1, group_index, g.key, g.items[i],
                                     output_detail_headers) : i \in 1..n}
    IN  WriteGroups(groups, k + 1, row_num + n, NextGroupIndex(group_index),
            output_detail_headers,
            [cells   |-> ws.cells \cup rows,
             merged  |-> ws.merged \cup MergeRegions(start_row, end_row, nkeys),
             aligned |-> ws.aligned \cup {<<start_row, c>> : c \in 1..(nkeys + 1)}])

\* lines 414-464: the workbook in memory
WriteSheet(groups, key_columns, detail_columns) ==
    WriteGroups(groups, 1, 2, 1, OutputDetailHeaders(detail_columns),
        [EmptySheet EXCEPT !.cells = HeaderCells(key_columns, detail_columns)])

-----------------------------------------------------------------------------
(* load_data: read_excel(dtype=str), then dropna(how='all', axis=0) *)

AllNaN(row) == \A j \in 1..Len(row) : row[j] = NaN

RECURSIVE dropna_all(_)
dropna_all(rows) ==
    IF Len(rows) = 0 THEN <<>>
    ELSE (IF AllNaN(rows[1]) THEN <<>> ELSE <<rows[1]>>) \o dropna_all(Tail(rows))

\* update_column_selectors: a standard key column starts checked
DefaultChecked(columns) ==
    [i \in 1..Len(columns) |-> columns[i] \in Range(STANDARD_KEY_COLUMNS)]

\* NoKeySelected that never holds
NoKeySelected_never(key_columns) == Len(key_columns) < 0

\* if not key_columns
NoKeySelected(key_columns) == Len(key_columns) = 0

\* processed_df: every cell through the per-cell passes of its column
NormalizeRows(columns, rows) ==
    [r \in 1..Len(rows) |-> [j \in 1..Len(columns) |-> normalize(rows[r][j], columns[j])]]

-----------------------------------------------------------------------------
(* State *)

VARIABLES
    sheet,              \* the selected sheet of the file: [columns, rows] as read_excel reads it
    df,                 \* self.df: [loaded, columns, rows]; loaded = FALSE is None
    column_checkboxes,  \* self.column_checkboxes: isChecked() of each
    pc,                 \* where process_data stands; "idle" between calls
    key_columns,        \* locals of process_data
    detail_columns,
    processed_df,
    groups,
    json_data_dict,
    ws,
    run,                \* history of the current or last call of process_data:
                        \* [outcome, message, effects], cleared by the other handlers
    cell                \* one cell taken through normalize and coerce on its own

vars == <<sheet, df, column_checkboxes, pc, key_columns, detail_columns,
          processed_df, groups, json_data_dict, ws, run, cell>>

locals == <<key_columns, detail_columns, processed_df, groups, json_data_dict, ws>>

NoRun == [outcome |-> "none", message |-> "none", effects |-> {}]

NoCell == [pc |-> "none", value |-> <<>>, col |-> <<>>, once |-> <<>>,
           twice |-> <<>>, typed |-> StrValue(<<>>)]

ClearLocals ==
    /\ key_columns' = <<>>
    /\ detail_columns' = <<>>
    /\ processed_df' = <<>>
    /\ groups' = <<>>
    /\ json_data_dict' = <<>>
    /\ ws' = EmptySheet

-----------------------------------------------------------------------------
(* Inputs *)

\* most data rows of a sheet
MaxRows == 3
\* most columns of a sheet of SpecColumns
MaxCols == 3

RawValues == {NaN, <<"_">>, <<"5", ".", "0">>}

SheetsOf(headers, values, maxrows) ==
    {[columns |-> h, rows |-> rs] :
        h \in {headers}, rs \in UNION {[1..n -> [1..Len(headers) -> values]] : n \in 0..maxrows}}

\* Spec: a sheet of a free column and a standard date column, with every
\* content of up to MaxRows rows
DataSheets == SheetsOf(<<col_FeiYongYuan, col_RiQi>>, RawValues, MaxRows)

ColumnUniverse == {col_YunDanHao, col_RiQi, col_FeiYongYuan, col_BeiZhu, col_update}

\* SpecColumns: every header of up to MaxCols distinct columns, one data row at most
Headers ==
    {h \in UNION {[1..n -> ColumnUniverse] : n \in 1..MaxCols} :
        \A i, j \in 1..Len(h) : i # j => h[i] # h[j]}

ColumnSheets == UNION {SheetsOf(h, {<<"5">>}, 1) : h \in Headers}

-----------------------------------------------------------------------------
(* Handlers *)

InitWith(sheets, cells) ==
    /\ sheet \in sheets
    /\ df = [loaded |-> FALSE, columns |-> <<>>, rows |-> <<>>]
    /\ column_checkboxes = <<>>
    /\ pc = "idle"
    /\ key_columns = <<>>
    /\ detail_columns = <<>>
    /\ processed_df = <<>>
    /\ groups = <<>>
    /\ json_data_dict = <<>>
    /\ ws = EmptySheet
    /\ run = NoRun
    /\ cell \in cells

\* load_data
LoadData ==
    /\ pc = "idle"
    /\ df' = [loaded |-> TRUE, columns |-> sheet.columns, rows |-> dropna_all(sheet.rows)]
    /\ column_checkboxes' = DefaultChecked(sheet.columns)
    /\ run' = NoRun
    /\ UNCHANGED <<sheet, pc, locals, cell>>

\* the user clicks checkbox i
ToggleCheckbox(i) ==
    /\ pc = "idle" /\ df.loaded
    /\ column_checkboxes' = [column_checkboxes EXCEPT ![i] = ~@]
    /\ run' = NoRun
    /\ UNCHANGED <<sheet, df, pc, locals, cell>>

\* toggle_all(checked)
ToggleAll(checked) ==
    /\ pc = "idle" /\ df.loaded
    /\ column_checkboxes' = [i \in 1..Len(column_checkboxes) |-> checked]
    /\ run' = NoRun
    /\ UNCHANGED <<sheet, df, pc, locals, cell>>

\* process_data, lines 286-316: the partitioner and the validation
ProcessStart ==
    /\ pc = "idle" /\ df.loaded
    /\ LET keys == KeyColumns(df.columns, column_checkboxes)
       IN  IF NoKeySelected(keys)
           THEN /\ run' = [outcome |-> "warning", message |-> "warning", effects |-> {}]
                /\ UNCHANGED <<pc, locals>>
           ELSE /\ run' = [outcome |-> "running", message |-> "none", effects |-> {}]
                /\ pc' = "dialog"
                /\ key_columns' = keys
                /\ detail_columns' = DetailColumns(df.columns, column_checkboxes)
                /\ UNCHANGED <<processed_df, groups, json_data_dict, ws>>
    /\ UNCHANGED <<sheet, df, column_checkboxes, cell>>

\* lines 320-332: the save dialog; no path chosen returns
SaveDialog(chosen) ==
    /\ pc = "dialog"
    /\ IF chosen
       THEN /\ pc' = "normalize"
            /\ run' = [run EXCEPT !.effects = @ \cup {"dialog"}]
            /\ UNCHANGED locals
       ELSE /\ pc' = "idle"
            /\ run' = [run EXCEPT !.outcome = "cancelled", !.effects = @ \cup {"dialog"}]
            /\ ClearLocals
    /\ UNCHANGED <<sheet, df, column_checkboxes, cell>>

\* lines 336-362
Normalize ==
    /\ pc = "normalize"
    /\ processed_df' = NormalizeRows(df.columns, df.rows)
    /\ pc' = "group"
    /\ run' = [run EXCEPT !.effects = @ \cup {"normalize"}]
    /\ UNCHANGED <<sheet, df, column_checkboxes, key_columns, detail_columns,
                   groups, json_data_dict, ws, cell>>

\* lines 366-411
Group ==
    /\ pc = "group"
    /\ LET g == GroupRows(df.columns, processed_df, key_columns, detail_columns,
                          1, <<>>, <<>>)
       IN  /\ groups' = g.groups
           /\ json_data_dict' = g.json_data_dict
    /\ pc' = "sheet"
    /\ run' = [run EXCEPT !.effects = @ \cup {"group"}]
    /\ UNCHANGED <<sheet, df, column_checkboxes, key_columns, detail_columns,
                   processed_df, ws, cell>>

\* lines 414-464
Sheet ==
    /\ pc = "sheet"
    /\ ws' = WriteSheet(groups, key_columns, detail_columns)
    /\ pc' = "save"
    /\ run' = [run EXCEPT !.effects = @ \cup {"sheet"}]
    /\ UNCHANGED <<sheet, df, column_checkboxes, key_columns, detail_columns,
                   processed_df, groups, json_data_dict, cell>>

\* line 466: wb.save(save_path)
SaveWorkbook ==
    /\ pc = "save"
    /\ pc' = "makedirs"
    /\ run' = [run EXCEPT !.effects = @ \cup {"xlsx"}]
    /\ UNCHANGED <<sheet, df, column_checkboxes, locals, cell>>

\* line 470: os.makedirs(json_output_dir, exist_ok=True)
MakeDirs ==
    /\ pc = "makedirs"
    /\ pc' = "json"
    /\ run' = [run EXCEPT !.effects = @ \cup {"makedirs"}]
    /\ UNCHANGED <<sheet, df, column_checkboxes, locals, cell>>

\* lines 477-480: json.dump, then the information box
WriteJson ==
    /\ pc = "json"
    /\ pc' = "idle"
    /\ run' = [outcome |-> "done", message |-> "information",
               effects |-> run.effects \cup {"json"}]
    /\ ClearLocals
    /\ UNCHANGED <<sheet, df, column_checkboxes, cell>>

\* lines 482-485: the statement at pc raises; the handler reports and returns
Raise ==
    /\ pc \in {"normalize", "group", "sheet", "save", "makedirs", "json"}
    /\ pc' = "idle"
    /\ run' = [run EXCEPT !.outcome = "failed", !.message = "critical"]
    /\ ClearLocals
    /\ UNCHANGED <<sheet, df, column_checkboxes, cell>>

Next ==
    \/ LoadData
    \/ \E i \in 1..Len(column_checkboxes) : ToggleCheckbox(i)
    \/ \E checked \in BOOLEAN : ToggleAll(checked)
    \/ ProcessStart
    \/ \E chosen \in BOOLEAN : SaveDialog(chosen)
    \/ Normalize
    \/ Group
    \/ Sheet
    \/ SaveWorkbook
    \/ MakeDirs
    \/ WriteJson
    \/ Raise

Init == InitWith(DataSheets, {NoCell})

Spec == Init /\ [][Next]_vars

InitColumns == InitWith(ColumnSheets, {NoCell})

SpecColumns == InitColumns /\ [][Next]_vars

-----------------------------------------------------------------------------
(* One cell on its own: normalize, normalize again, then coerce as the     *)
(* value of a detail column                                                *)

NumChars == {"0", "5", ".", "sup2"}

\* every text of 1..MaxLen characters of NumChars
NumericTexts == UNION {[1..n -> NumChars] : n \in 1..MaxLen}

Mantissas == { <<"2">>, <<"2", ".", "5">>, <<".", "5">>, <<"a">> }

\* <mantissa>e+<exponent> and <mantissa>E+<exponent>, exponent 0..MaxExp
SciTexts ==
    {m \o <<e, "+">> \o NatText(x) : m \in Mantissas, e \in {"e", "E"}, x \in 0..MaxExp}

NamedTexts ==
    { <<"4", "5", "9", "3", "2", ".", "0">>,
      <<"4", "5", "9", "3", "2">>,
      <<" ", "4", "5", "9", "3", "2", " ">>,
      <<"1", "0", "0", "0", "0">>,
      <<"1", "0", "0", "0", "0", ".", "5">>,
      <<"1", "0", "0", "0", "1">>,
      <<"2", "9", "5", "8", "4", "6", "6">>,
      <<"2", "0", "2", "5", "0", "9", "0", "1">>,
      <<"1", ".", "2", "3", "e", "+", "1", "0">>,
      <<"2", "0", "2", "5", "-", "0", "1", "-", "0", "2">>,
      <<"2", "0", "2", "5", "/", "1", "0", "/", "0", "2">>,
      <<"2", "0", "2", "5", "-", "0", "2", "-", "3", "0">>,
      <<"n", "a", "n">>,
      <<"N", "A", "N">>,
      <<"a", "_", "5">>,
      <<>> }

CellInputs == {NaN} \cup NumericTexts \cup SciTexts \cup NamedTexts

CellColumns ==
    {col_RiQi, col_ChuKuRiQi, col_YunDanHao, col_FeiYongYuan, col_YingFuJinE,
     col_update, <<"D", "a", "t", "e">>}

EmptyFile == [columns |-> <<col_RiQi>>, rows |-> <<>>]

InitCell ==
    InitWith({EmptyFile},
        {[NoCell EXCEPT !.pc = "input", !.value = v, !.col = c] :
            v \in CellInputs, c \in CellColumns})

\* lines 341-362 on one cell
NormalizeOnce ==
    /\ cell.pc = "input"
    /\ cell' = [cell EXCEPT !.pc = "once", !.once = normalize(cell.value, cell.col)]
    /\ UNCHANGED <<sheet, df, column_checkboxes, pc, locals, run>>

\* the same passes on their own output
NormalizeTwice ==
    /\ cell.pc = "once"
    /\ cell' = [cell EXCEPT !.pc = "twice", !.twice = normalize(cell.once, cell.col)]
    /\ UNCHANGED <<sheet, df, column_checkboxes, pc, locals, run>>

\* lines 386-408 on the canonical text, cell.col being a detail column
CoerceCell ==
    /\ cell.pc = "twice"
    /\ cell' = [cell EXCEPT !.pc = "typed",
                            !.typed = coerce(cell.once, COLUMN_MAPPING(cell.col))]
    /\ UNCHANGED <<sheet, df, column_checkboxes, pc, locals, run>>

NextCell ==
    \/ NormalizeOnce
    \/ NormalizeTwice
    \/ CoerceCell

SpecCell == InitCell /\ [][NextCell]_vars

-----------------------------------------------------------------------------
(* Properties *)

\* the grouping loop has run and its two indexes are still held
AfterGrouping == pc \in {"sheet", "save", "makedirs", "json"}

\* the worksheet has been written in memory
AfterSheet == pc \in {"save", "makedirs", "json"}

RowKey(r) == key_tuple(df.columns, processed_df[r], key_columns)

\* the partition of the rows an index induces
Blocks(index) == {Range(index[k].rows) : k \in 1..Len(index)}

NoSeparatorInKeys ==
    \A r \in 1..Len(processed_df) : \A i \in 1..Len(key_columns) :
        ~contains(RowKey(r)[i], <<"_">>)

\* C1: when no key value contains "_", after the grouping loop the tuple-keyed
\* index and the string-keyed index put the same rows in the same groups.
C1_SamePartition ==
    (AfterGrouping /\ Len(key_columns) > 0 /\ NoSeparatorInKeys)
        => Blocks(groups) = Blocks(json_data_dict)

C1_Witness ==
    /\ pc = "sheet" /\ NoSeparatorInKeys
    /\ Len(key_columns) = 2 /\ Len(groups) = 2
    /\ \E k \in 1..Len(groups) : Len(groups[k].rows) = 2
    /\ RowKey(1)[1] # RowKey(1)[2]

RECURSIVE SumLen(_, _)
SumLen(index, k) == IF k = 0 THEN 0 ELSE SumLen(index, k - 1) + Len(index[k].items)

\* the first and the last output row of group k
StartRow(k) == 2 + SumLen(groups, k - 1)
LastRow(k) == StartRow(k) + Len(groups[k].items) - 1

\* the output rows that carry sequence number k in column 1
RowsNumbered(k) ==
    {c.row : c \in {x \in ws.cells : x.column = 1 /\ x.row >= 2 /\ x.value = NumberCell(k)}}

ColumnRegions(k) ==
    {[start_row |-> StartRow(k), start_column |-> c,
      end_row |-> LastRow(k), end_column |-> c] : c \in 1..(Len(key_columns) + 1)}

\* C2: each group's rows are one contiguous span, the first from row 2 and each
\* next one right after the previous; the merge regions are exactly, for every
\* group of more than one record, that span in the sequence column and in each
\* key column; none for a one-record group, none overlapping, none in a detail
\* column.
C2_MergedSpans ==
    AfterSheet =>
        /\ \A k \in 1..Len(groups) : RowsNumbered(k) = StartRow(k)..LastRow(k)
        /\ ws.merged = UNION {ColumnRegions(k) :
                               k \in {j \in 1..Len(groups) : Len(groups[j].items) > 1}}
        /\ \A k \in 1..Len(groups) :
              Len(groups[k].items) = 1 =>
                  ~\E m \in ws.merged : m.start_row <= StartRow(k) /\ StartRow(k) <= m.end_row
        /\ \A m1, m2 \in ws.merged :
              (m1 # m2 /\ m1.start_column = m2.start_column)
                  => (m1.end_row < m2.start_row \/ m2.end_row < m1.start_row)
        /\ \A m \in ws.merged :
              m.start_column = m.end_column /\ m.end_column <= Len(key_columns) + 1

C2_Witness ==
    /\ pc = "save" /\ Len(detail_columns) = 1
    /\ \E k, l \in 1..Len(groups) :
          k < l /\ Len(groups[k].items) = 1 /\ Len(groups[l].items) = 2
    /\ ws.merged # {}

Ended == run.outcome \in {"warning", "cancelled", "failed", "done"}

\* C3: when a call of process_data has ended, either both the tabular file and
\* the keyed-export file were written by it or neither was.
C3_AllOrNothing ==
    Ended => (("xlsx" \in run.effects) <=> ("json" \in run.effects))

NoneChecked == \A i \in 1..Len(column_checkboxes) : ~column_checkboxes[i]

\* C4: with no column checked, process_data shows the warning box (not the
\* failure box) and returns at once: it never leaves "idle", and nothing of the
\* save dialog, the normalisation, the grouping, the files or the directory
\* has happened.
C4_EmptyKeyWarning ==
    /\ run.outcome = "warning"
          => /\ NoneChecked /\ pc = "idle"
             /\ run.message = "warning" /\ run.effects = {}
    /\ (df.loaded /\ NoneChecked)
          => /\ pc = "idle"
             /\ run.outcome \in {"none", "warning"}
             /\ run.effects = {}

C4_Witness == run.outcome = "warning" /\ Len(df.rows) > 0

StrictlyIncreasing(seq) == \A i, j \in 1..Len(seq) : i < j => seq[i] < seq[j]

RowsAccounted(index) ==
    /\ SumLen(index, Len(index)) = Len(df.rows)
    /\ \A r \in 1..Len(df.rows) :
          Cardinality({k \in 1..Len(index) : r \in Range(index[k].rows)}) = 1
    /\ \A k \in 1..Len(index) :
          /\ Len(index[k].items) = Len(index[k].rows)
          /\ StrictlyIncreasing(index[k].rows)
          /\ \A i \in 1..Len(index[k].rows) :
                index[k].items[i] =
                    detail_item(df.columns, processed_df[index[k].rows[i]], detail_columns)

\* C5: after the grouping loop, in each of the two indexes the lengths of the
\* record lists sum to the number of rows of the loaded table (the rows of the
\* sheet that are not entirely empty); every row gave one record to one group,
\* and a group's records are in row order.
C5_EveryRowOnce ==
    AfterGrouping =>
        /\ Len(df.rows) = Cardinality({i \in 1..Len(sheet.rows) : ~AllNaN(sheet.rows[i])})
        /\ Len(processed_df) = Len(df.rows)
        /\ RowsAccounted(groups)
        /\ RowsAccounted(json_data_dict)

C5_Witness ==
    /\ pc = "sheet" /\ Len(sheet.rows) = 3 /\ Len(df.rows) = 2
    /\ Len(groups) = 1 /\ Len(detail_columns) = 1
    /\ groups[1].items[1] # groups[1].items[2]

\* row r is the first row with its key
FirstSeen(r) == \A q \in 1..(r - 1) : RowKey(q) # RowKey(r)

\* C6: the sequence numbers in column 1 are exactly 1..G, G the number of
\* distinct group keys; the k-th key in order of first occurrence among the
\* rows has number k, and the rows numbered k are that group's rows: as many
\* as the input rows of that key, each carrying the key.
C6_SequenceNumbers ==
    AfterSheet =>
        /\ Len(groups) = Cardinality({RowKey(r) : r \in 1..Len(processed_df)})
        /\ {c.value : c \in {x \in ws.cells : x.column = 1 /\ x.row >= 2}}
              = {NumberCell(k) : k \in 1..Len(groups)}
        /\ \A k \in 1..Len(groups) :
              /\ \E r \in 1..Len(processed_df) :
                    /\ FirstSeen(r) /\ RowKey(r) = groups[k].key
                    /\ Cardinality({q \in 1..r : FirstSeen(q)}) = k
              /\ Cardinality(RowsNumbered(k))
                    = Cardinality({r \in 1..Len(processed_df) : RowKey(r) = groups[k].key})
              /\ \A row \in RowsNumbered(k) : \A i \in 1..Len(key_columns) :
                    [row |-> row, column |-> i + 1, value |-> StrValue(groups[k].key[i])]
                        \in ws.cells

C6_Witness ==
    /\ pc = "save" /\ Len(groups) = 2
    /\ groups[1].rows = <<1, 3>> /\ groups[2].rows = <<2>>
    /\ RowsNumbered(1) = {2, 3} /\ RowsNumbered(2) = {4}

NoDuplicates(seq) == \A i, j \in 1..Len(seq) : i # j => seq[i] # seq[j]

SelectedColumns == {df.columns[i] : i \in {j \in 1..Len(df.columns) : column_checkboxes[j]}}

Standard == Range(STANDARD_KEY_COLUMNS)

\* C7: the key list is a duplicate-free arrangement of the checked columns,
\* the standard ones first in STANDARD_KEY_COLUMNS order, the others after in
\* table order; the detail list is the unchecked columns in table order; the
\* two are disjoint and cover the table's columns.
C7_Partition ==
    pc # "idle" =>
        /\ NoDuplicates(key_columns)
        /\ Range(key_columns) = SelectedColumns
        /\ \A i, j \in 1..Len(key_columns) : i < j =>
              LET a == key_columns[i]
                  b == key_columns[j]
              IN  /\ ~(a \notin Standard /\ b \in Standard)
                  /\ (a \in Standard /\ b \in Standard)
                        => find(STANDARD_KEY_COLUMNS, a) < find(STANDARD_KEY_COLUMNS, b)
                  /\ (a \notin Standard /\ b \notin Standard)
                        => find(df.columns, a) < find(df.columns, b)
        /\ NoDuplicates(detail_columns)
        /\ Range(detail_columns) = Range(df.columns) \ SelectedColumns
        /\ \A i, j \in 1..Len(detail_columns) : i < j =>
              find(df.columns, detail_columns[i]) < find(df.columns, detail_columns[j])
        /\ Range(key_columns) \cap Range(detail_columns) = {}
        /\ Range(key_columns) \cup Range(detail_columns) = Range(df.columns)

C7_Witness ==
    /\ pc = "dialog"
    /\ df.columns = <<col_BeiZhu, col_YunDanHao, col_RiQi>>
    /\ key_columns = <<col_RiQi, col_YunDanHao, col_BeiZhu>>

\* decimal digits with at most one decimal point, one digit at least
NumericLooking(s) ==
    /\ Len(replace_dot_once(s)) > 0
    /\ IsDecimalText(replace_dot_once(s))

\* C8: a canonical text of decimal digits with at most one point is stored as a
\* float when it has a point or its output column is monetary, as an int
\* otherwise, with the number the text writes; any other text is stored as it
\* is, also the one isdigit() accepts and the conversion rejects.
C8_Coercion ==
    cell.pc = "typed" =>
        LET s    == cell.once
            name == COLUMN_MAPPING(cell.col)
        IN  IF NumericLooking(s)
            THEN IF find(s, ".") # 0 \/ name \in MONETARY_COLUMNS
                 THEN /\ cell.typed.t = "float"
                      /\ cell.typed.a = (IF IntPart(s) = <<>> THEN <<"0">>
                                         ELSE StripLeadingZeros(IntPart(s)))
                      /\ cell.typed.b = StripTrailingZeros(FracPart(s))
                 ELSE /\ cell.typed.t = "int"
                      /\ cell.typed.a = StripLeadingZeros(s)
                      /\ cell.typed.b = <<>>
            ELSE cell.typed = [t |-> "str", a |-> s, b |-> <<>>]

C8_Witness ==
    /\ cell.pc = "typed"
    /\ cell.col = col_FeiYongYuan
    /\ cell.value = <<"5", ".", "0">> /\ cell.once = <<"5">>
    /\ cell.typed = [t |-> "float", a |-> <<"5">>, b |-> <<>>]

\* the input values C9 names
IsNumericInput(v) == v # NaN /\ NumericLooking(v)
IsSciInput(v) == v # NaN /\ contains(lower(v), <<"e", "+">>) /\ IntOfFloatText(v) # <<"raise">>
IsDateInput(v) == v # NaN /\ pd_to_datetime(v).ok

\* C9: for a date text, a plain or decimal numeric text (also one ending in
\* ".0") or an exponent-notation text, in any column, normalising the
\* normalised value gives it back.
C9_Idempotent ==
    (cell.pc \in {"twice", "typed"}
        /\ (IsNumericInput(cell.value) \/ IsSciInput(cell.value) \/ IsDateInput(cell.value)))
        => cell.twice = cell.once

Text45932_0 == <<"4", "5", "9", "3", "2", ".", "0">>

\* C10 as amended: "45932.0" normalises to "2025-10-02" in a column whose name
\* holds a date keyword (day 45932 from 1899-12-30), and to "45932" in any
\* other column.
C10_Serial45932 ==
    (cell.pc # "input" /\ cell.value = Text45932_0) =>
        IF IsDateColumn(cell.col)
        THEN cell.once = <<"2", "0", "2", "5", "-", "1", "0", "-", "0", "2">>
        ELSE cell.once = <<"4", "5", "9", "3", "2">>

\* C10 as stated: the date is "2025-09-01"
C10_AsStated ==
    (cell.pc # "input" /\ cell.value = Text45932_0) =>
        IF IsDateColumn(cell.col)
        THEN cell.once = <<"2", "0", "2", "5", "-", "0", "9", "-", "0", "1">>
        ELSE cell.once = <<"4", "5", "9", "3", "2">>

C10_Witness ==
    /\ cell.pc = "once" /\ cell.value = Text45932_0 /\ cell.col = col_ChuKuRiQi
    /\ cell.once = <<"2", "0", "2", "5", "-", "1", "0", "-", "0", "2">>

=============================================================================
